---- MODULE Spec2Model ----
(***************************************************************************)
(* Model of validate.py, the Glyphs outline validation script.              *)
(*                                                                         *)
(* The script is one batch pass: for every glyph of the font it runs the   *)
(* checks (a)..(g) on the glyph's layer, stores the glyph's issue list,    *)
(* and after the loop prints the summary, the per-glyph report and the     *)
(* outline width groups.  The position of the pass is pc; every check is   *)
(* one step.                                                               *)
(*                                                                         *)
(* Numbers.  Coordinates, sizes and lengths are reals in the script.  A    *)
(* real v is stored as the integer 2*v, so the model covers the multiples  *)
(* of 1/2 (100.5 is stored as 201).  H(n) stores the integer n.  A product *)
(* of two stored values is 4 times the real product.                       *)
(***************************************************************************)
EXTENDS Integers, Sequences, FiniteSets, TLC

VARIABLES font, gi, pc, issues,
          count_small_segments, count_suspicious_lengths, count_close_nodes,
          count_collinear, count_open_paths, count_isolated,
          issues_by_glyph, width_to_glyphs, out

vars == <<font, gi, pc, issues,
          count_small_segments, count_suspicious_lengths, count_close_nodes,
          count_collinear, count_open_paths, count_isolated,
          issues_by_glyph, width_to_glyphs, out>>

counters == <<count_small_segments, count_suspicious_lengths, count_close_nodes,
              count_collinear, count_open_paths, count_isolated>>

\* Number of glyphs of the font.
NumGlyphs == 2

-----------------------------------------------------------------------------
(* Arithmetic helpers *)

H(n) == 2 * n

Abs(n) == IF n < 0 THEN 0 - n ELSE n

\* Python 3 round(x) of a stored value: nearest integer, ties to even.
PyRound(x) ==
  LET f == x \div 2
  IN  IF x % 2 = 0 THEN f
      ELSE IF f % 2 = 0 THEN f ELSE f + 1

\* fmt_coord(x): int(round(x)) when |x - round(x)| < 0.001, else round(x, 2).
\* A multiple of 1/2 has at most one decimal, so round(x, 2) leaves it as is.
fmt_coord(x) ==
  IF Abs(x - H(PyRound(x))) * 1000 < 2
  THEN H(PyRound(x))
  ELSE x

FmtPt(p) == <<fmt_coord(p.x), fmt_coord(p.y)>>

RECURSIVE Flatten(_)
Flatten(ss) == IF ss = <<>> THEN <<>> ELSE Head(ss) \o Flatten(Tail(ss))

\* for path in layer.paths: for segment in path.segments
AllSegments(layer) ==
  Flatten([i \in 1..Len(layer.paths) |-> layer.paths[i].segments])

\* [node for node in path.nodes if node.type != "offcurve"]
OnCurve(node) == node.type # "offcurve"
OnCurveNodes(path) == SelectSeq(path.nodes, OnCurve)

\* An issue string, kept as its parts: the fixed text, the formatted points,
\* the numbers and the name that the f-string interpolates.
Issue(cat, text, pts, nums, name) ==
  [cat |-> cat, text |-> text, pts |-> pts, nums |-> nums, name |-> name]

OK == Issue("OK", "OK", <<>>, <<>>, "")

\* Emit that appends the issue and leaves the counter as it is.
EmitNoCount(acc, issue) ==
  [issues |-> Append(acc.issues, issue), count |-> acc.count]

Emit(acc, issue) ==
  [issues |-> Append(acc.issues, issue), count |-> acc.count + 1]

-----------------------------------------------------------------------------
(* (a) Small segments check *)

\* SmallSegmentHit with the lower ends taken as exclusive.
SmallSegmentHitExclusive(seg) ==
  (seg.w > H(1) /\ seg.w <= H(9)) \/ (seg.h > H(1) /\ seg.h <= H(9))

SmallSegmentHit(seg) ==
  (seg.w >= H(1) /\ seg.w <= H(9)) \/ (seg.h >= H(1) /\ seg.h <= H(9))

SmallSegmentIssue(seg) ==
  IF seg.hasPts
  THEN Issue("small", "Small segment from .. to .. [bbox]",
             <<FmtPt(seg.first), FmtPt(seg.last)>>, <<seg.w, seg.h>>, "")
  ELSE Issue("small", "Small segment [bbox]", <<>>, <<seg.w, seg.h>>, "")

RECURSIVE SmallSegmentsLoop(_, _, _)
SmallSegmentsLoop(segs, k, acc) ==
  IF k > Len(segs) THEN acc
  ELSE SmallSegmentsLoop(segs, k + 1,
         IF SmallSegmentHit(segs[k])
         THEN Emit(acc, SmallSegmentIssue(segs[k]))
         ELSE acc)

SmallSegmentsCheck(layer, acc) == SmallSegmentsLoop(AllSegments(layer), 1, acc)

-----------------------------------------------------------------------------
(* (b) Specific suspicious segment lengths check *)

target_lengths == <<100, 110, 140, 150>>

\* NearTarget that also takes an exact match.
NearTargetOrEqual(len, target) ==
  LET diff == Abs(len - H(target))
  IN  0 <= diff /\ diff <= H(3)

NearTarget(len, target) ==
  LET diff == Abs(len - H(target))
  IN  0 < diff /\ diff <= H(3)

\* The for/break over target_lengths: index of the first target that matches,
\* 0 when none does.
RECURSIVE FirstNearTarget(_, _)
FirstNearTarget(len, k) ==
  IF k > Len(target_lengths) THEN 0
  ELSE IF NearTarget(len, target_lengths[k]) THEN k
  ELSE FirstNearTarget(len, k + 1)

\* round(seg_length, 1) leaves a multiple of 1/2 as it is.
SuspiciousLengthIssue(seg, target) ==
  IF seg.hasPts
  THEN Issue("length", "Segment at .. length ~L (near target)",
             <<FmtPt(seg.first)>>, <<seg.len, target>>, "")
  ELSE Issue("length", "Segment length ~L (near target)",
             <<>>, <<seg.len, target>>, "")

RECURSIVE SuspiciousLengthsLoop(_, _, _)
SuspiciousLengthsLoop(segs, k, acc) ==
  IF k > Len(segs) THEN acc
  ELSE SuspiciousLengthsLoop(segs, k + 1,
         IF ~segs[k].hasLen THEN acc
         ELSE LET t == FirstNearTarget(segs[k].len, 1)
              IN  IF t = 0 THEN acc
                  ELSE Emit(acc, SuspiciousLengthIssue(segs[k], target_lengths[t])))

SuspiciousLengthsCheck(layer, acc) ==
  SuspiciousLengthsLoop(AllSegments(layer), 1, acc)

-----------------------------------------------------------------------------
(* (c) Very close nodes check (on-curve nodes only) *)

\* oncurve_points: the on-curve nodes of all paths, in path order.
OnCurvePoints(layer) ==
  Flatten([i \in 1..Len(layer.paths) |-> OnCurveNodes(layer.paths[i])])

\* dx*dx + dy*dy, 4 times the real value.
DistSq(p, q) == (q.x - p.x) * (q.x - p.x) + (q.y - p.y) * (q.y - p.y)

\* VeryClose with the distance 9 itself taken as close.
VeryCloseOrEqual(p, q) == DistSq(p, q) <= 4 * (9 * 9)

\* dist_sq < 9 ** 2
VeryClose(p, q) == DistSq(p, q) < 4 * (9 * 9)

\* round(dist_sq ** 0.5, 1) in tenths: the r nearest to 10 * sqrt(d / 4).
\* (2r-1)^2 and (2r+1)^2 are odd and 100 * d is even, so there is no tie.
DistVal(d) ==
  CHOOSE r \in 0..(10 * 9) :
    /\ (r = 0 \/ (2 * r - 1) * (2 * r - 1) <= 100 * d)
    /\ 100 * d < (2 * r + 1) * (2 * r + 1)

CloseNodesIssue(p, q) ==
  Issue("close", "Nodes at .. and .. very close (dist=)",
        <<FmtPt(p), FmtPt(q)>>, <<DistVal(DistSq(p, q))>>, "")

RECURSIVE CloseNodesInner(_, _, _, _)
CloseNodesInner(pts, i, j, acc) ==
  IF j > Len(pts) THEN acc
  ELSE CloseNodesInner(pts, i, j + 1,
         IF VeryClose(pts[i], pts[j])
         THEN Emit(acc, CloseNodesIssue(pts[i], pts[j]))
         ELSE acc)

RECURSIVE CloseNodesOuter(_, _, _)
CloseNodesOuter(pts, i, acc) ==
  IF i > Len(pts) THEN acc
  ELSE CloseNodesOuter(pts, i + 1, CloseNodesInner(pts, i, i + 1, acc))

CloseNodesCheck(layer, acc) == CloseNodesOuter(OnCurvePoints(layer), 1, acc)

-----------------------------------------------------------------------------
(* (d) Collinear triple (extra node) check *)

\* (Bx - Ax) * (Cy - By) - (By - Ay) * (Cx - Bx), 4 times the real value.
Cross(A, B, C) == (B.x - A.x) * (C.y - B.y) - (B.y - A.y) * (C.x - B.x)

\* abs(cross) < 1e-6: the stored value is an integer, so it must be 0.
CollinearTriple(A, B, C) == Abs(Cross(A, B, C)) < 1

CollinearIssue(B) ==
  Issue("collinear", "Extra node at .. (collinear with neighbors)",
        <<FmtPt(B)>>, <<>>, "")

\* CollinearLoop that stops at the end of a closed path as it does for an
\* open one.
RECURSIVE CollinearLoopNoWrap(_, _, _, _)
CollinearLoopNoWrap(on, closed, i, acc) ==
  LET m == Len(on)
  IN  IF i >= m THEN acc
      ELSE IF i + 2 >= m THEN acc
      ELSE LET A == on[i + 1]
               B == on[((i + 1) % m) + 1]
               C == on[((i + 2) % m) + 1]
           IN  CollinearLoopNoWrap(on, closed, i + 1,
                 IF Abs((B.x - A.x) * (C.y - B.y) - (B.y - A.y) * (C.x - B.x)) < 1
                 THEN [issues |-> Append(acc.issues,
                                         [cat |-> "collinear",
                                          text |-> "Extra node at .. (collinear with neighbors)",
                                          pts |-> <<FmtPt(B)>>, nums |-> <<>>, name |-> ""]),
                       count |-> acc.count + 1]
                 ELSE acc)

\* for i in range(m), with i counted from 0 as in the script; on[i + 1] is
\* oncurve_nodes[i].  An open path breaks at the first i with i + 2 >= m.
RECURSIVE CollinearLoop(_, _, _, _)
CollinearLoop(on, closed, i, acc) ==
  LET m == Len(on)
  IN  IF i >= m THEN acc
      ELSE IF i + 2 >= m /\ ~closed THEN acc
      ELSE LET A == on[i + 1]
               B == on[((i + 1) % m) + 1]
               C == on[((i + 2) % m) + 1]
           IN  CollinearLoop(on, closed, i + 1,
                 IF CollinearTriple(A, B, C)
                 THEN Emit(acc, CollinearIssue(B))
                 ELSE acc)

CollinearPath(path, acc) ==
  LET oncurve_nodes == OnCurveNodes(path)
  IN  IF Len(oncurve_nodes) < 3 THEN acc
      ELSE CollinearLoop(oncurve_nodes, path.closed, 0, acc)

RECURSIVE CollinearPaths(_, _, _)
CollinearPaths(paths, k, acc) ==
  IF k > Len(paths) THEN acc
  ELSE CollinearPaths(paths, k + 1, CollinearPath(paths[k], acc))

CollinearCheck(layer, acc) == CollinearPaths(layer.paths, 1, acc)

-----------------------------------------------------------------------------
(* (e) Open path check *)

\* The first on-curve node from index k on in direction step (1 forward,
\* -1 backward); the node given as dflt when the walk finds none.
RECURSIVE WalkToOnCurve(_, _, _, _)
WalkToOnCurve(nodes, k, step, dflt) ==
  IF k < 1 \/ k > Len(nodes) THEN dflt
  ELSE IF OnCurve(nodes[k]) THEN nodes[k]
  ELSE WalkToOnCurve(nodes, k + step, step, dflt)

\* last_node = path.nodes[-1], replaced by the last on-curve node when it is
\* off-curve and the backward loop finds one.
LastNode(path) ==
  LET last_node == path.nodes[Len(path.nodes)]
  IN  IF last_node.type = "offcurve"
      THEN WalkToOnCurve(path.nodes, Len(path.nodes), 0 - 1, last_node)
      ELSE last_node

FirstNode(path) ==
  LET first_node == path.nodes[1]
  IN  IF first_node.type = "offcurve"
      THEN WalkToOnCurve(path.nodes, 1, 1, first_node)
      ELSE first_node

\* The limit 1e18 of the sentinel test, beyond the integers at hand: any
\* value above every ordinary coordinate stands for it.
SentinelLimit == 1000000000

\* abs(node.x) > 1e18 selects the fallback to the segment's boundary point.
BeyondSentinel(node) == Abs(node.x) > SentinelLimit

Some(p) == [none |-> FALSE, x |-> p.x, y |-> p.y]
None == [none |-> TRUE, x |-> 0, y |-> 0]

\* path.segments[0].firstPoint() / path.segments[-1].lastPoint(), None when
\* the call raises.
SegmentFallback(path, atStart) ==
  LET n == Len(path.segments)
  IN  IF n = 0 THEN None
      ELSE IF atStart
           THEN (IF path.segments[1].hasPts THEN Some(path.segments[1].first) ELSE None)
           ELSE (IF path.segments[n].hasPts THEN Some(path.segments[n].last) ELSE None)

Endpoint(path, node, atStart) ==
  IF BeyondSentinel(node) THEN SegmentFallback(path, atStart) ELSE Some(node)

OpenPathIssue(first_node, last_node) ==
  Issue("open", "Open path (endpoints at .. and ..)",
        <<FmtPt(first_node), FmtPt(last_node)>>, <<>>, "")

\* OpenPath without the skip of a single-node path.
OpenPathNoSingleSkip(path, acc) ==
  IF path.closed THEN acc
  ELSE IF Len(path.nodes) = 0 THEN acc
  ELSE LET first_node == Endpoint(path, FirstNode(path), TRUE)
           last_node == Endpoint(path, LastNode(path), FALSE)
       IN  IF first_node.none \/ last_node.none
           THEN acc
           ELSE Emit(acc, OpenPathIssue(first_node, last_node))

OpenPath(path, acc) ==
  IF path.closed THEN acc
  ELSE IF Len(path.nodes) = 0 THEN acc
  ELSE IF Len(path.nodes) = 1 THEN acc
  ELSE LET first_node == Endpoint(path, FirstNode(path), TRUE)
           last_node == Endpoint(path, LastNode(path), FALSE)
       IN  IF first_node.none \/ last_node.none
           THEN acc
           ELSE Emit(acc, OpenPathIssue(first_node, last_node))

RECURSIVE OpenPaths(_, _, _)
OpenPaths(paths, k, acc) ==
  IF k > Len(paths) THEN acc
  ELSE OpenPaths(paths, k + 1, OpenPath(paths[k], acc))

OpenPathsCheck(layer, acc) == OpenPaths(layer.paths, 1, acc)

-----------------------------------------------------------------------------
(* (f) Isolated single-node path check *)

IsolatedIssue(node) ==
  Issue("isolated", "Isolated node at ..", <<FmtPt(node)>>, <<>>, "")

IsolatedPath(path, acc) ==
  IF Len(path.nodes) = 1 THEN Emit(acc, IsolatedIssue(path.nodes[1])) ELSE acc

RECURSIVE IsolatedPaths(_, _, _)
IsolatedPaths(paths, k, acc) ==
  IF k > Len(paths) THEN acc
  ELSE IsolatedPaths(paths, k + 1, IsolatedPath(paths[k], acc))

IsolatedCheck(layer, acc) == IsolatedPaths(layer.paths, 1, acc)

-----------------------------------------------------------------------------
(* (g) Anchors check *)

\* anchor.name or "(unnamed)": None (named = FALSE) and "" are both falsy.
AnchorName(anchor) ==
  IF anchor.named /\ anchor.name # "" THEN anchor.name ELSE "(unnamed)"

AnchorIssue(anchor) ==
  Issue("anchor", "Anchor 'name' at ..", <<FmtPt(anchor)>>, <<>>, AnchorName(anchor))

\* AnchorsLoop that passes over anchors named "top".
RECURSIVE AnchorsLoopSkipTop(_, _, _)
AnchorsLoopSkipTop(anchors, k, acc) ==
  IF k > Len(anchors) THEN acc
  ELSE AnchorsLoopSkipTop(anchors, k + 1,
         IF anchors[k].named /\ anchors[k].name = "top"
         THEN acc
         ELSE Emit(acc, AnchorIssue(anchors[k])))

RECURSIVE AnchorsLoop(_, _, _)
AnchorsLoop(anchors, k, acc) ==
  IF k > Len(anchors) THEN acc
  ELSE AnchorsLoop(anchors, k + 1, Emit(acc, AnchorIssue(anchors[k])))

AnchorsCheck(layer, acc) == AnchorsLoop(layer.anchors, 1, acc)

-----------------------------------------------------------------------------
(* Storing the glyph's issues, the report and the width groups *)

\* d[k] = v on a dict kept as a function.
Put(d, k, v) == [x \in DOMAIN d \cup {k} |-> IF x = k THEN v ELSE d[x]]

\* d.get(k, dflt)
Get(d, k, dflt) == IF k \in DOMAIN d THEN d[k] ELSE dflt

\* int(round(layer.bounds.size.width)), 0 when layer.bounds is None.
DrawnWidth(layer) ==
  IF ~layer.bounds.defined THEN 0 ELSE PyRound(layer.bounds.w)

\* GroupLoop that starts the bucket anew for every glyph.
RECURSIVE GroupLoopOverwrite(_, _, _)
GroupLoopOverwrite(glyphs, k, groups) ==
  IF k > Len(glyphs) THEN groups
  ELSE LET drawn_width == DrawnWidth(glyphs[k].layer)
       IN  GroupLoopOverwrite(glyphs, k + 1,
             Put(groups, drawn_width, <<glyphs[k].name>>))

\* width_to_glyphs.setdefault(drawn_width, []).append(glyph.name), glyph by glyph.
RECURSIVE GroupLoop(_, _, _)
GroupLoop(glyphs, k, groups) ==
  IF k > Len(glyphs) THEN groups
  ELSE LET drawn_width == DrawnWidth(glyphs[k].layer)
       IN  GroupLoop(glyphs, k + 1,
             Put(groups, drawn_width,
                 Append(Get(groups, drawn_width, <<>>), glyphs[k].name)))

\* sorted(list): insertion of each element before the first greater one.
RECURSIVE Insert(_, _)
Insert(x, s) ==
  IF s = <<>> THEN <<x>>
  ELSE IF x <= Head(s) THEN <<x>> \o s
  ELSE <<Head(s)>> \o Insert(x, Tail(s))

RECURSIVE Sorted(_)
Sorted(s) == IF s = <<>> THEN <<>> ELSE Insert(Head(s), Sorted(Tail(s)))

\* sorted(d.keys())
RECURSIVE SortedKeys(_)
SortedKeys(keys) ==
  IF keys = {} THEN <<>>
  ELSE LET k == CHOOSE x \in keys : \A y \in keys : x <= y
       IN  <<k>> \o SortedKeys(keys \ {k})

\* The lines printed under "Outline Width Groups".
WidthGroupLines(groups) ==
  LET ks == SortedKeys(DOMAIN groups)
  IN  [i \in 1..Len(ks) |-> [width |-> ks[i], names |-> Sorted(groups[ks[i]])]]

\* The per-glyph report lines.
DetailLines(glyphs, byGlyph) ==
  [i \in 1..Len(glyphs) |->
     LET found == Get(byGlyph, glyphs[i].name, <<>>)
     IN  [name |-> glyphs[i].name,
          lines |-> IF found = <<>> THEN <<OK>> ELSE found]]

-----------------------------------------------------------------------------
(* The outline data the script reads from Glyphs *)

Node(x, y, type) == [x |-> x, y |-> y, type |-> type]
Line(x, y) == Node(H(x), H(y), "line")
Curve(x, y) == Node(H(x), H(y), "curve")
Off(x, y) == Node(H(x), H(y), "offcurve")

Point(n) == [x |-> n.x, y |-> n.y]

\* A segment: bounds.size, length() (hasLen = FALSE: None), and
\* firstPoint()/lastPoint() (hasPts = FALSE: the calls raise).
Segment(w, h, hasLen, len, hasPts, first, last) ==
  [w |-> w, h |-> h, hasLen |-> hasLen, len |-> len,
   hasPts |-> hasPts, first |-> first, last |-> last]

Path(closed, nodes, segments) ==
  [closed |-> closed, nodes |-> nodes, segments |-> segments]

Anchor(named, name, x, y) == [named |-> named, name |-> name, x |-> H(x), y |-> H(y)]

NoBounds == [defined |-> FALSE, w |-> 0, h |-> 0]
Bounds(w, h) == [defined |-> TRUE, w |-> w, h |-> h]

Layer(paths, anchors, bounds) ==
  [paths |-> paths, anchors |-> anchors, bounds |-> bounds]

MinOf(S) == CHOOSE x \in S : \A y \in S : x <= y
MaxOf(S) == CHOOSE x \in S : \A y \in S : y <= x

\* The length of the chord from p to q, to the nearest 1/2.
ChordLen(p, q) ==
  CHOOSE r \in 0..H(1000) :
    /\ (r = 0 \/ (2 * r - 1) * (2 * r - 1) <= 4 * DistSq(p, q))
    /\ 4 * DistSq(p, q) < (2 * r + 1) * (2 * r + 1)

\* The segments Glyphs derives from a path's nodes: one per pair of
\* consecutive on-curve nodes (cyclically for a closed path), bounded by the
\* box of its two ends and the handles between them.
SegmentsOf(closed, nodes) ==
  LET n == Len(nodes)
      oc == SelectSeq([i \in 1..n |-> i], LAMBDA i : OnCurve(nodes[i]))
      m == Len(oc)
      cnt == IF n < 2 \/ m < 2 THEN 0 ELSE IF closed THEN m ELSE m - 1
      seg(k) ==
        LET a == oc[k]
            b == oc[(k % m) + 1]
            span == {a, b} \cup {((a - 1 + d) % n) + 1 : d \in 1..((b - a - 1) % n)}
            xs == {nodes[i].x : i \in span}
            ys == {nodes[i].y : i \in span}
        IN  Segment(MaxOf(xs) - MinOf(xs), MaxOf(ys) - MinOf(ys),
                    TRUE, ChordLen(nodes[a], nodes[b]),
                    TRUE, Point(nodes[a]), Point(nodes[b]))
  IN  [k \in 1..cnt |-> seg(k)]

OutlinePath(closed, nodes) == Path(closed, nodes, SegmentsOf(closed, nodes))

\* The layer's bounds: the box of all nodes, None without nodes.
BoundsOf(paths) ==
  LET all == Flatten([i \in 1..Len(paths) |-> paths[i].nodes])
      xs == {all[i].x : i \in 1..Len(all)}
      ys == {all[i].y : i \in 1..Len(all)}
  IN  IF all = <<>> THEN NoBounds
      ELSE Bounds(MaxOf(xs) - MinOf(xs), MaxOf(ys) - MinOf(ys))

Outline(paths, anchors) == Layer(paths, anchors, BoundsOf(paths))

EmptyLayer == Outline(<<>>, <<>>)

-----------------------------------------------------------------------------
(* The pass over the font *)

\* layer = glyph.layers[masterID] of the glyph the loop is at.
CurrentLayer == font[gi].layer

Acc(count) == [issues |-> issues, count |-> count]

\* for glyph in font.glyphs: ... issues = []
BeginGlyph ==
  /\ pc = "glyph"
  /\ IF gi <= Len(font)
     THEN issues' = <<>> /\ pc' = "small"
     ELSE issues' = issues /\ pc' = "summary"
  /\ UNCHANGED <<font, gi, counters, issues_by_glyph, width_to_glyphs, out>>

SmallSegments ==
  /\ pc = "small"
  /\ LET r == SmallSegmentsCheck(CurrentLayer, Acc(count_small_segments))
     IN  issues' = r.issues /\ count_small_segments' = r.count
  /\ pc' = "length"
  /\ UNCHANGED <<font, gi, count_suspicious_lengths, count_close_nodes,
                 count_collinear, count_open_paths, count_isolated,
                 issues_by_glyph, width_to_glyphs, out>>

SuspiciousLengths ==
  /\ pc = "length"
  /\ LET r == SuspiciousLengthsCheck(CurrentLayer, Acc(count_suspicious_lengths))
     IN  issues' = r.issues /\ count_suspicious_lengths' = r.count
  /\ pc' = "close"
  /\ UNCHANGED <<font, gi, count_small_segments, count_close_nodes,
                 count_collinear, count_open_paths, count_isolated,
                 issues_by_glyph, width_to_glyphs, out>>

CloseNodes ==
  /\ pc = "close"
  /\ LET r == CloseNodesCheck(CurrentLayer, Acc(count_close_nodes))
     IN  issues' = r.issues /\ count_close_nodes' = r.count
  /\ pc' = "collinear"
  /\ UNCHANGED <<font, gi, count_small_segments, count_suspicious_lengths,
                 count_collinear, count_open_paths, count_isolated,
                 issues_by_glyph, width_to_glyphs, out>>

Collinear ==
  /\ pc = "collinear"
  /\ LET r == CollinearCheck(CurrentLayer, Acc(count_collinear))
     IN  issues' = r.issues /\ count_collinear' = r.count
  /\ pc' = "open"
  /\ UNCHANGED <<font, gi, count_small_segments, count_suspicious_lengths,
                 count_close_nodes, count_open_paths, count_isolated,
                 issues_by_glyph, width_to_glyphs, out>>

OpenPathsStep ==
  /\ pc = "open"
  /\ LET r == OpenPathsCheck(CurrentLayer, Acc(count_open_paths))
     IN  issues' = r.issues /\ count_open_paths' = r.count
  /\ pc' = "isolated"
  /\ UNCHANGED <<font, gi, count_small_segments, count_suspicious_lengths,
                 count_close_nodes, count_collinear, count_isolated,
                 issues_by_glyph, width_to_glyphs, out>>

IsolatedNodes ==
  /\ pc = "isolated"
  /\ LET r == IsolatedCheck(CurrentLayer, Acc(count_isolated))
     IN  issues' = r.issues /\ count_isolated' = r.count
  /\ pc' = "anchors"
  /\ UNCHANGED <<font, gi, count_small_segments, count_suspicious_lengths,
                 count_close_nodes, count_collinear, count_open_paths,
                 issues_by_glyph, width_to_glyphs, out>>

Anchors ==
  /\ pc = "anchors"
  /\ LET r == AnchorsCheck(CurrentLayer, Acc(count_isolated))
     IN  issues' = r.issues /\ count_isolated' = r.count
  /\ pc' = "store"
  /\ UNCHANGED <<font, gi, count_small_segments, count_suspicious_lengths,
                 count_close_nodes, count_collinear, count_open_paths,
                 issues_by_glyph, width_to_glyphs, out>>

\* issues_by_glyph[glyph_name] = ["OK"] or issues; on to the next glyph.
StoreIssues ==
  /\ pc = "store"
  /\ issues_by_glyph' =
       Put(issues_by_glyph, font[gi].name,
           IF Len(issues) = 0 THEN <<OK>> ELSE issues)
  /\ gi' = gi + 1
  /\ pc' = "glyph"
  /\ UNCHANGED <<font, issues, counters, width_to_glyphs, out>>

PrintSummary ==
  /\ pc = "summary"
  /\ out' = Append(out, [sec |-> "Summary of Issues", body |-> counters])
  /\ pc' = "details"
  /\ UNCHANGED <<font, gi, issues, counters, issues_by_glyph, width_to_glyphs>>

PrintDetails ==
  /\ pc = "details"
  /\ out' = Append(out, [sec |-> "Glyphs", body |-> DetailLines(font, issues_by_glyph)])
  /\ pc' = "groups"
  /\ UNCHANGED <<font, gi, issues, counters, issues_by_glyph, width_to_glyphs>>

GroupWidths ==
  /\ pc = "groups"
  /\ width_to_glyphs' = GroupLoop(font, 1, <<>>)
  /\ out' = Append(out, [sec |-> "Outline Width Groups",
                         body |-> WidthGroupLines(width_to_glyphs')])
  /\ pc' = "done"
  /\ UNCHANGED <<font, gi, issues, counters, issues_by_glyph>>

Next ==
  \/ BeginGlyph
  \/ SmallSegments
  \/ SuspiciousLengths
  \/ CloseNodes
  \/ Collinear
  \/ OpenPathsStep
  \/ IsolatedNodes
  \/ Anchors
  \/ StoreIssues
  \/ PrintSummary
  \/ PrintDetails
  \/ GroupWidths

\* The state before the loop, for a font drawn from the given set.
InitWith(fonts) ==
  /\ font \in fonts
  /\ gi = 1
  /\ pc = "glyph"
  /\ issues = <<>>
  /\ count_small_segments = 0
  /\ count_suspicious_lengths = 0
  /\ count_close_nodes = 0
  /\ count_collinear = 0
  /\ count_open_paths = 0
  /\ count_isolated = 0
  /\ issues_by_glyph = <<>>
  /\ width_to_glyphs = <<>>
  /\ out = <<>>

Glyph(name, layer) == [name |-> name, layer |-> layer]

\* Fonts of NumGlyphs glyphs named 1..NumGlyphs in order, over the layers.
FontsOver(layers) ==
  {[i \in 1..NumGlyphs |-> Glyph(i, ls[i])] : ls \in [1..NumGlyphs -> layers]}

\* Fonts whose glyph names are in any order and may repeat.
FontsAnyNames(layers) ==
  [1..NumGlyphs -> {Glyph(n, l) : n \in 1..NumGlyphs, l \in layers}]

-----------------------------------------------------------------------------
(* Fonts for the small segments check *)

\* Widths and heights around the two ends of [1, 9]: 0, 0.5, 1, 9, 9.5.
EdgeSizes == {0, 1, H(1), H(9), H(9) + 1}

SmallSizes ==
  {<<w, h>> : w \in EdgeSizes, h \in {0, H(9) + 1}}
  \cup {<<w, h>> : w \in {0, H(9) + 1}, h \in EdgeSizes}
  \cup {<<H(1), H(9)>>, <<H(11), H(11)>>}

\* A segment from (0, 0) to (w, h) with the given box, as a path of its own.
BoxSegment(w, h, hasPts) ==
  Segment(w, h, w + h > 0, w + h, hasPts, [x |-> 0, y |-> 0], [x |-> w, y |-> h])

BoxPath(w, h, hasPts) ==
  Path(FALSE, <<Node(0, 0, "line"), Node(w, h, "line")>>, <<BoxSegment(w, h, hasPts)>>)

SmallLayers ==
  {Outline(<<BoxPath(s[1], s[2], TRUE)>>, <<>>) : s \in SmallSizes}
  \cup {Outline(<<BoxPath(s[1], s[2], FALSE)>>, <<>>) :
          s \in {<<0, 0>>, <<H(1), 0>>, <<0, H(9)>>, <<H(9) + 1, 0>>}}
  \cup {Outline(<<BoxPath(H(9), 0, TRUE), BoxPath(0, 1, TRUE)>>, <<>>),
        Outline(<<Path(TRUE, <<Line(0, 0), Line(5, 0), Line(5, 20)>>,
                       <<Segment(H(5), 0, TRUE, H(5), TRUE,
                                 Point(Line(0, 0)), Point(Line(5, 0))),
                         Segment(0, H(20), TRUE, H(20), TRUE,
                                 Point(Line(5, 0)), Point(Line(5, 20))),
                         Segment(H(5), H(20), TRUE, H(20) + 1, FALSE,
                                 Point(Line(5, 20)), Point(Line(0, 0)))>>)>>, <<>>)}

InitSmall == InitWith(FontsOver(SmallLayers))
SpecSmall == InitSmall /\ [][Next]_vars

-----------------------------------------------------------------------------
(* Fonts for the suspicious lengths check *)

\* Lengths around 100 +- 3 and the other targets: 96.5, 97, 99, 99.5, 100,
\* 100.5, 101, 103, 103.5, 107, 113, 147, 153.5.
EdgeLengths ==
  {H(97) - 1, H(97), H(99), H(100) - 1, H(100), H(100) + 1, H(101), H(103),
   H(103) + 1, H(107), H(113), H(147), H(153) + 1}

\* A curve from (0, 0) to (0, 90) of the given length.
CurveSegment(hasLen, len, hasPts) ==
  Segment(H(10), H(90), hasLen, len, hasPts,
          Point(Line(0, 0)), Point(Curve(0, 90)))

CurvePath(hasLen, len, hasPts) ==
  Path(FALSE, <<Line(0, 0), Off(10, 30), Off(10, 60), Curve(0, 90)>>,
       <<CurveSegment(hasLen, len, hasPts)>>)

LengthLayers ==
  {Outline(<<CurvePath(TRUE, len, TRUE)>>, <<>>) : len \in EdgeLengths}
  \cup {Outline(<<CurvePath(TRUE, len, FALSE)>>, <<>>) : len \in {H(100), H(100) + 1}}
  \cup {Outline(<<CurvePath(FALSE, 0, TRUE)>>, <<>>),
        Outline(<<CurvePath(TRUE, H(100) + 1, TRUE), CurvePath(TRUE, H(113), TRUE)>>, <<>>)}

InitLength == InitWith(FontsOver(LengthLayers))
SpecLength == InitLength /\ [][Next]_vars

-----------------------------------------------------------------------------
(* Fonts for the very close nodes check *)

Square(x, y, side) ==
  OutlinePath(TRUE, <<Line(x, y), Line(x + side, y),
                      Line(x + side, y + side), Line(x, y + side)>>)

\* Second nodes at distance 0, 4, 8, 8.5, sqrt(80), 9, sqrt(97), ... of (0, 0).
NearNodes ==
  {Node(H(x), H(y), t) : x \in {0, 4, 9}, y \in {0, 8, 9}, t \in {"line", "offcurve"}}
  \cup {Node(H(8) + 1, 0, "line")}

CloseLayers ==
  {Outline(<<OutlinePath(FALSE, <<Line(0, 0)>>), OutlinePath(FALSE, <<n>>)>>, <<>>) :
     n \in NearNodes}
  \cup {\* two closed squares glued along an edge: boxes flush, two shared corners
        Outline(<<Square(0, 0, 100), Square(100, 0, 100)>>, <<>>),
        \* a closed square and a closed triangle meeting in one corner, boxes not flush
        Outline(<<Square(0, 0, 100),
                  OutlinePath(TRUE, <<Line(100, 100), Line(150, 130), Line(50, 60)>>)>>, <<>>),
        \* an open path that ends on a corner of a closed square
        Outline(<<Square(0, 0, 100),
                  OutlinePath(FALSE, <<Line(100, 0), Line(200, 0)>>)>>, <<>>),
        \* three nodes of one path within 9 of each other, handles closer still
        Outline(<<OutlinePath(TRUE, <<Line(0, 0), Off(1, 1), Off(2, 2), Curve(3, 4),
                                      Line(6, 0)>>)>>, <<>>)}

InitClose == InitWith(FontsOver(CloseLayers))
SpecClose == InitClose /\ [][Next]_vars

-----------------------------------------------------------------------------
(* Fonts for the collinear triple check *)

\* Three points in a row and a corner; the handle that may follow each point.
Corner == <<Line(0, 0), Line(10, 0), Line(20, 0), Line(20, 10)>>
Handle == <<Off(5, 5), Off(15, 0 - 5), Off(25, 5), Off(10, 10)>>

\* The corner path started at its q-th point, with a handle in the given gaps.
CornerNodes(gaps, q) ==
  Flatten([i \in 1..Len(Corner) |->
             LET k == ((q + i - 2) % Len(Corner)) + 1
             IN  IF k \in gaps THEN <<Corner[k], Handle[k]>> ELSE <<Corner[k]>>])

HandleGaps == {{}, {1}, {2}, {1, 2}, {3}, {4}}

Row == <<Line(0, 0), Line(10, 0), Line(20, 0), Line(30, 0)>>

CollinearLayers ==
  {Outline(<<OutlinePath(c, CornerNodes(g, q))>>, <<>>) :
     c \in BOOLEAN, g \in HandleGaps, q \in {1, 2}}
  \cup {Outline(<<OutlinePath(TRUE, Row)>>, <<>>),
        Outline(<<OutlinePath(FALSE, Row)>>, <<>>),
        Outline(<<OutlinePath(FALSE, <<Line(0, 0), Off(10, 5), Off(20, 5), Curve(30, 0)>>)>>,
                <<>>)}

InitCollinear == InitWith(FontsOver(CollinearLayers))
SpecCollinear == InitCollinear /\ [][Next]_vars

-----------------------------------------------------------------------------
(* Fonts for the open path and isolated node checks *)

Spot == <<[x |-> 0, y |-> 0], [x |-> H(100), y |-> H(50)], [x |-> H(200), y |-> 0]>>

\* One path of up to three nodes, each on- or off-curve, closed or open.
SpotPathsOf(k) ==
  {OutlinePath(c, [i \in 1..k |-> Node(Spot[i].x, Spot[i].y, ts[i])]) :
     c \in BOOLEAN, ts \in [1..k -> {"line", "offcurve"}]}

SpotPaths == UNION {SpotPathsOf(k) : k \in 0..Len(Spot)}

OpenLayers ==
  {Outline(<<p>>, <<>>) : p \in SpotPaths}
  \cup {Outline(<<OutlinePath(FALSE, <<Line(0, 0)>>),
                  OutlinePath(FALSE, <<Line(50, 50), Line(90, 50)>>),
                  OutlinePath(TRUE, <<Line(300, 300)>>)>>, <<>>),
        \* two handles, the first with an x beyond the sentinel limit
        Outline(<<OutlinePath(FALSE, <<Node(SentinelLimit + 1, 0, "offcurve"),
                                       Off(100, 50)>>)>>, <<>>)}

InitOpen == InitWith(FontsOver(OpenLayers))
SpecOpen == InitOpen /\ [][Next]_vars

-----------------------------------------------------------------------------
(* Fonts for the anchors check *)

AnchorKinds ==
  {Anchor(TRUE, "top", 250, 700), Anchor(TRUE, "ogonek", 400, 0),
   Anchor(TRUE, "", 10, 10), Anchor(FALSE, "", 20, 20)}

AnchorLayers ==
  {Outline(<<>>, as) : as \in {<<>>} \cup {<<a>> : a \in AnchorKinds}
                                    \cup {<<a, b>> : a \in AnchorKinds, b \in AnchorKinds}}
  \cup {Outline(<<OutlinePath(FALSE, <<Line(250, 700)>>)>>, <<Anchor(TRUE, "top", 250, 700)>>)}

InitAnchors == InitWith(FontsOver(AnchorLayers))
SpecAnchors == InitAnchors /\ [][Next]_vars

-----------------------------------------------------------------------------
(* Fonts for the report and the width groups *)

ReportLayers ==
  {EmptyLayer,
   \* nothing to report, 100 wide
   Outline(<<Square(0, 0, 100)>>, <<>>),
   \* 2.5 wide
   Outline(<<OutlinePath(FALSE, <<Node(0, 0, "line"), Node(H(2) + 1, 0, "line")>>)>>, <<>>),
   \* 3.5 wide: two single nodes and two anchors
   Outline(<<OutlinePath(FALSE, <<Node(0, 0, "line")>>),
             OutlinePath(TRUE, <<Node(H(3) + 1, H(50), "line")>>)>>,
           <<Anchor(TRUE, "top", 250, 700), Anchor(FALSE, "", 0, 0)>>),
   \* 202 wide: two lines of length 101 in a row, left open, and an anchor
   Outline(<<OutlinePath(FALSE, <<Line(0, 0), Line(101, 0), Line(202, 0)>>)>>,
           <<Anchor(TRUE, "bottom", 101, 0)>>),
   \* 2 wide
   Outline(<<Square(0, 0, 2)>>, <<>>)}

InitReport == InitWith(FontsAnyNames(ReportLayers))
SpecReport == InitReport /\ [][Next]_vars

-----------------------------------------------------------------------------
(* Properties of the checks *)

\* The issues a step appended to the glyph's list.
Added == SubSeq(issues', Len(issues) + 1, Len(issues'))

IssuesOf(cat) == SelectSeq(issues, LAMBDA i : i.cat = cat)

InSmallRange(v) == v \in H(1)..H(9)

\* C5: the small segments step appends, in segment order, exactly one issue
\* for every segment whose box width or height is in [1, 9] and none for any
\* other segment, adds the number of these segments to the small segments
\* counter, and a flagged segment whose boundary points are unavailable gets
\* its issue without coordinates.
C5_SmallSegments ==
  [][(pc = "small" /\ pc' = "length") =>
       LET segs == AllSegments(CurrentLayer)
           flagged == SelectSeq(segs, LAMBDA sg : InSmallRange(sg.w) \/ InSmallRange(sg.h))
       IN  /\ Len(Added) = Len(flagged)
           /\ count_small_segments' = count_small_segments + Len(flagged)
           /\ \A k \in 1..Len(flagged) :
                /\ Added[k].cat = "small"
                /\ Added[k].nums = <<flagged[k].w, flagged[k].h>>
                /\ Added[k].pts = IF flagged[k].hasPts
                                  THEN <<FmtPt(flagged[k].first), FmtPt(flagged[k].last)>>
                                  ELSE <<>>]_vars

\* A segment of height exactly 9 and width 0 whose boundary points are
\* unavailable has been flagged, and one of box 0.5 x 0 has not.
C5_Witness ==
  /\ pc = "length"
  /\ \E i \in 1..Len(issues) :
       issues[i].cat = "small" /\ issues[i].pts = <<>> /\ issues[i].nums = <<0, H(9)>>
  /\ gi = 2
  /\ AllSegments(font[1].layer)[1].w = 1
  /\ count_small_segments = 1

\* The targets, by index, that a length L is near: lo <= |L - t| <= 3.
TargetsNear(L, lo) ==
  {k \in 1..Len(target_lengths) :
     lo <= Abs(L - H(target_lengths[k])) /\ Abs(L - H(target_lengths[k])) <= H(3)}

\* The suspicious lengths step flags exactly the segments with a defined
\* length that has a target t with lo <= |L - t| <= 3, each once, with one
\* count, naming the first such target of the list.
LengthStepAgrees(lo) ==
  (pc = "length" /\ pc' = "close") =>
    LET segs == AllSegments(CurrentLayer)
        flagged == SelectSeq(segs, LAMBDA sg : sg.hasLen /\ TargetsNear(sg.len, lo) # {})
    IN  /\ Len(Added) = Len(flagged)
        /\ count_suspicious_lengths' = count_suspicious_lengths + Len(flagged)
        /\ \A k \in 1..Len(flagged) :
             /\ Added[k].cat = "length"
             /\ Added[k].nums =
                  <<flagged[k].len, target_lengths[MinOf(TargetsNear(flagged[k].len, lo))]>>

\* C1 as stated: flagged iff some target t has 1 <= |L - t| <= 3.
C1_AsStated == [][LengthStepAgrees(H(1))]_vars

\* C1, amended: a segment with a defined length L is flagged iff some target t
\* has 0 < |L - t| <= 3 (0.5 is the least positive difference of the model);
\* a flagged segment gets exactly one issue and one count, naming the first
\* target in list order that matches.
C1_SuspiciousLengths == [][LengthStepAgrees(1)]_vars

\* A segment of length 100.5 has been flagged as near 100.
C1_Witness ==
  /\ pc = "close"
  /\ \E i \in 1..Len(issues) :
       issues[i].cat = "length" /\ issues[i].nums = <<H(100) + 1, 100>>

\* The on-curve nodes of a layer in path order, each with its path's index.
OwnedOnCurve(layer) ==
  Flatten([i \in 1..Len(layer.paths) |->
             LET on == OnCurveNodes(layer.paths[i])
             IN  [k \in 1..Len(on) |-> [owner |-> i, node |-> on[k]]]])

\* A path's bounding box, from its nodes.
BoxOf(path) ==
  LET xs == {path.nodes[i].x : i \in 1..Len(path.nodes)}
      ys == {path.nodes[i].y : i \in 1..Len(path.nodes)}
  IN  [minx |-> MinOf(xs), maxx |-> MaxOf(xs), miny |-> MinOf(ys), maxy |-> MaxOf(ys)]

\* Two boxes are flush when they share an x- or a y-extent boundary.
Flush(b, c) ==
  \/ b.maxx = c.minx \/ c.maxx = b.minx \/ b.maxx = c.maxx \/ b.minx = c.minx
  \/ b.maxy = c.miny \/ c.maxy = b.miny \/ b.maxy = c.maxy \/ b.miny = c.miny

\* A coincident pair on two different closed paths with flush boxes.
GluedPair(layer, a, b) ==
  /\ a.node.x = b.node.x /\ a.node.y = b.node.y
  /\ a.owner # b.owner
  /\ layer.paths[a.owner].closed /\ layer.paths[b.owner].closed
  /\ Flush(BoxOf(layer.paths[a.owner]), BoxOf(layer.paths[b.owner]))

\* The pairs i < j nearer than 9; with relaxed, the glued pairs are left out.
ClosePairs(layer, relaxed) ==
  LET pts == OwnedOnCurve(layer)
  IN  {ij \in (1..Len(pts)) \X (1..Len(pts)) :
         /\ ij[1] < ij[2]
         /\ DistSq(pts[ij[1]].node, pts[ij[2]].node) < H(9) * H(9)
         /\ ~(relaxed /\ GluedPair(layer, pts[ij[1]], pts[ij[2]]))}

\* The close nodes step reports exactly the pairs of ClosePairs, each once
\* and with one count.
CloseStepAgrees(relaxed) ==
  (pc = "close" /\ pc' = "collinear") =>
    LET pts == OwnedOnCurve(CurrentLayer)
        pairs == ClosePairs(CurrentLayer, relaxed)
    IN  /\ Len(Added) = Cardinality(pairs)
        /\ count_close_nodes' = count_close_nodes + Cardinality(pairs)
        /\ \A k \in 1..Len(Added) : Added[k].cat = "close"
        /\ \A ij \in pairs :
             LET same == {kl \in pairs :
                            /\ Point(pts[kl[1]].node) = Point(pts[ij[1]].node)
                            /\ Point(pts[kl[2]].node) = Point(pts[ij[2]].node)}
                 told == {k \in 1..Len(Added) :
                            Added[k].pts = <<FmtPt(pts[ij[1]].node), FmtPt(pts[ij[2]].node)>>}
             IN  Cardinality(told) = Cardinality(same)

\* C4 as stated: whether or not relaxation is asked for, the pairs reported are
\* those nearer than 9, less the glued pairs under relaxation.
C4_AsStated == [][\A relaxed \in BOOLEAN : CloseStepAgrees(relaxed)]_vars

\* C4, amended: over the one list of all on-curve points of a layer, every
\* pair i < j is flagged exactly once, with one count, iff its squared
\* distance is < 81, distance 0 included and distance 9 excluded; no pair is
\* exempt, a coincident pair on two closed paths with flush boxes included.
C4_CloseNodes == [][CloseStepAgrees(FALSE)]_vars

\* Two closed squares glued along an edge: both shared corners were reported
\* at distance 0.
C4_Witness ==
  /\ pc = "collinear"
  /\ \E ij \in ClosePairs(CurrentLayer, FALSE) :
       GluedPair(CurrentLayer, OwnedOnCurve(CurrentLayer)[ij[1]],
                 OwnedOnCurve(CurrentLayer)[ij[2]])
  /\ Len(SelectSeq(issues, LAMBDA i : i.cat = "close" /\ i.nums = <<0>>)) = 2

\* The positions of a path's on-curve nodes in its full node list.
OnCurveIndex(path) ==
  SelectSeq([i \in 1..Len(path.nodes) |-> i], LAMBDA i : path.nodes[i].type # "offcurve")

\* The starts i (from 0) of the triples (i, i+1, i+2) of on-curve nodes of a
\* path: all m of them, wrapping, when it is closed, the first m - 2 when open.
TripleStarts(path) ==
  LET m == Len(OnCurveIndex(path))
  IN  IF m < 3 THEN {} ELSE IF path.closed THEN 0..(m - 1) ELSE 0..(m - 3)

\* The j-th node (j = 0, 1, 2) of the triple that starts at i.
TripleNode(path, i, j) ==
  LET idx == OnCurveIndex(path)
  IN  path.nodes[idx[((i + j) % Len(idx)) + 1]]

ZeroCross(path, i) ==
  LET A == TripleNode(path, i, 0)
      B == TripleNode(path, i, 1)
      C == TripleNode(path, i, 2)
  IN  (B.x - A.x) * (C.y - B.y) = (B.y - A.y) * (C.x - B.x)

\* B directly follows A and C directly follows B in the full node list.
NoHandleBetween(path, i) ==
  LET idx == OnCurveIndex(path)
      m == Len(idx)
      n == Len(path.nodes)
      a == idx[(i % m) + 1]
      b == idx[((i + 1) % m) + 1]
      c == idx[((i + 2) % m) + 1]
  IN  b = (a % n) + 1 /\ c = (b % n) + 1

\* C2: every extra node the collinear step reports is the middle point B of
\* a triple of consecutive on-curve points with zero cross product in which B
\* directly follows A and C directly follows B in the path's full point list;
\* with an off-curve point in between, B is not reported.
C2_NeverCrossesOffCurve ==
  [][(pc = "collinear" /\ pc' = "open") =>
       \A k \in 1..Len(Added) :
         \E p \in 1..Len(CurrentLayer.paths) :
           \E i \in TripleStarts(CurrentLayer.paths[p]) :
             /\ ZeroCross(CurrentLayer.paths[p], i)
             /\ NoHandleBetween(CurrentLayer.paths[p], i)
             /\ Added[k].pts = <<FmtPt(TripleNode(CurrentLayer.paths[p], i, 1))>>]_vars

\* A sequence as a bag: how often x occurs in s.
Times(s, x) == Cardinality({k \in 1..Len(s) : s[k] = x})
SameBag(s, t) ==
  /\ Len(s) = Len(t)
  /\ \A k \in 1..Len(s) : Times(s, s[k]) = Times(t, s[k])

RotateSeq(s, r) == [i \in 1..Len(s) |-> s[((i - 1 + r) % Len(s)) + 1]]

\* The layer with the point sequence of every closed path rotated by r.
RotatedLayer(layer, r) ==
  [layer EXCEPT !.paths =
     [p \in 1..Len(layer.paths) |->
        IF layer.paths[p].closed /\ Len(layer.paths[p].nodes) > 0
        THEN [layer.paths[p] EXCEPT !.nodes = RotateSeq(layer.paths[p].nodes, r)]
        ELSE layer.paths[p]]]

LongestPath(layer) ==
  MaxOf({0} \cup {Len(layer.paths[p].nodes) : p \in 1..Len(layer.paths)})

RECURSIVE SumOver(_, _)
SumOver(f, S) ==
  IF S = {} THEN 0 ELSE LET x == CHOOSE y \in S : TRUE IN f[x] + SumOver(f, S \ {x})

\* C6: the collinear step reports one extra node for every triple start of a
\* path whose triple has zero cross product (all m cyclic triples of a closed
\* path, the m - 2 triples of an open one), and the bag of reported points and
\* the count are the same for every rotation of the closed paths' points.
C6_RotationInvariant ==
  [][(pc = "collinear" /\ pc' = "open") =>
       LET paths == CurrentLayer.paths
           hits == [p \in 1..Len(paths) |->
                      Cardinality({i \in TripleStarts(paths[p]) : ZeroCross(paths[p], i)})]
       IN  /\ Len(Added) = SumOver(hits, 1..Len(paths))
           /\ count_collinear' = count_collinear + Len(Added)
           /\ \A r \in 0..LongestPath(CurrentLayer) :
                LET turned == CollinearCheck(RotatedLayer(CurrentLayer, r),
                                             [issues |-> <<>>, count |-> 0])
                IN  SameBag(Added, turned.issues) /\ turned.count = Len(Added)]_vars

\* A closed path that starts at (10, 0): the triple (0,0)-(10,0)-(20,0) wraps
\* past the end of the point list, and (10, 0) was reported.
C6_Witness ==
  /\ pc = "open"
  /\ Len(CurrentLayer.paths) = 1
  /\ CurrentLayer.paths[1].closed
  /\ CurrentLayer.paths[1].nodes = <<Line(10, 0), Line(20, 0), Line(20, 10), Line(0, 0)>>
  /\ IssuesOf("collinear") = <<CollinearIssue(Line(10, 0))>>

\* C3: the open path step reports an open path of more than one point with
\* its first and its last on-curve point, and reports nothing, and counts
\* nothing, for one that has no on-curve point.
C3_EndpointsOnCurve ==
  [][(pc = "open" /\ pc' = "isolated") =>
       LET paths == CurrentLayer.paths
           told == SelectSeq(paths, LAMBDA q :
                     ~q.closed /\ Len(q.nodes) > 1 /\ Len(OnCurveIndex(q)) > 0)
       IN  /\ Len(Added) = Len(told)
           /\ count_open_paths' = count_open_paths + Len(told)
           /\ \A k \in 1..Len(told) :
                LET idx == OnCurveIndex(told[k])
                IN  Added[k].pts = <<FmtPt(told[k].nodes[idx[1]]),
                                     FmtPt(told[k].nodes[idx[Len(idx)]])>>]_vars

\* C7: the open path step reports only open paths of two or more points, so a
\* path of 0 or 1 points never gets an "open path" issue or count; the
\* isolated step reports exactly the paths of one point, each once, with one
\* isolated count and no open path count, and nothing for a path of 0 points.
C7_TinyPaths ==
  [][/\ (pc = "open" /\ pc' = "isolated") =>
          LET big == SelectSeq(CurrentLayer.paths, LAMBDA q : ~q.closed /\ Len(q.nodes) >= 2)
          IN  /\ Len(Added) <= Len(big)
              /\ count_open_paths' = count_open_paths + Len(Added)
              /\ \A k \in 1..Len(Added) :
                   /\ Added[k].cat = "open"
                   /\ \E b \in 1..Len(big) :
                        \A e \in 1..2 :
                          \E n \in 1..Len(big[b].nodes) : Added[k].pts[e] = FmtPt(big[b].nodes[n])
     /\ (pc = "isolated" /\ pc' = "anchors") =>
          LET single == SelectSeq(CurrentLayer.paths, LAMBDA q : Len(q.nodes) = 1)
          IN  /\ Len(Added) = Len(single)
              /\ count_isolated' = count_isolated + Len(single)
              /\ count_open_paths' = count_open_paths
              /\ \A k \in 1..Len(single) :
                   /\ Added[k].cat = "isolated"
                   /\ Added[k].pts = <<FmtPt(single[k].nodes[1])>>]_vars

\* The first glyph was a path of 0 points and is OK; the second has an open
\* and a closed path of one point, both reported as isolated, and an open path
\* of two points, the only open path reported.
C7_Witness ==
  /\ pc = "anchors"
  /\ gi = 2
  /\ Len(font[1].layer.paths) = 1
  /\ font[1].layer.paths[1].nodes = <<>>
  /\ issues_by_glyph[1] = <<OK>>
  /\ Len(CurrentLayer.paths) = 3
  /\ Len(IssuesOf("isolated")) = 2
  /\ Len(IssuesOf("open")) = 1
  /\ count_isolated = 2 /\ count_open_paths = 1

\* Anchor names that relaxation is said to pass over.
LooseAnchorNames == {"top"}

\* The anchors step reports, in order, every anchor (with relaxed: every
\* anchor whose name is not a loose one) once, by its name or "(unnamed)", each
\* with one isolated count; the isolated step feeds the same counter.
AnchorStepAgrees(relaxed) ==
  /\ (pc = "anchors" /\ pc' = "store") =>
       LET kept == SelectSeq(CurrentLayer.anchors, LAMBDA a :
                     ~(relaxed /\ a.named /\ a.name \in LooseAnchorNames))
       IN  /\ Len(Added) = Len(kept)
           /\ count_isolated' = count_isolated + Len(kept)
           /\ \A k \in 1..Len(kept) :
                /\ Added[k].cat = "anchor"
                /\ Added[k].pts = <<FmtPt(kept[k])>>
                /\ Added[k].name = IF kept[k].named /\ kept[k].name # ""
                                   THEN kept[k].name ELSE "(unnamed)"
  /\ (pc = "isolated" /\ pc' = "anchors") =>
       count_isolated' = count_isolated
           + Len(SelectSeq(CurrentLayer.paths, LAMBDA q : Len(q.nodes) = 1))

\* C8 as stated: with relaxation the loose anchors are passed over, without
\* it every anchor is reported.
C8_AsStated == [][\A relaxed \in BOOLEAN : AnchorStepAgrees(relaxed)]_vars

\* C8, amended: there is no relaxation; every anchor of a layer, "top"
\* included, gets exactly one issue (its name, or "(unnamed)" when the name is
\* absent or empty) and one count on the isolated counter, the counter that
\* single-point paths use.
C8_Anchors == [][AnchorStepAgrees(FALSE)]_vars

\* A layer with a single-point path and an anchor "top": both were reported
\* and both were counted as isolated.
C8_Witness ==
  /\ pc = "store"
  /\ gi = 1
  /\ Len(IssuesOf("isolated")) = 1
  /\ \E i \in 1..Len(issues) : issues[i].cat = "anchor" /\ issues[i].name = "top"
  /\ count_isolated = 2

\* The glyphs whose issues have been stored.
Processed == 1..(gi - 1)

DistinctNames(S) == \A i, j \in S : i # j => font[i].name # font[j].name

BetweenGlyphs == pc \in {"glyph", "summary", "details", "groups", "done"}

\* How many issues of the given categories the per-glyph map holds.
Stored(cats) ==
  SumOver([n \in DOMAIN issues_by_glyph |->
             Len(SelectSeq(issues_by_glyph[n], LAMBDA i : i.cat \in cats))],
          DOMAIN issues_by_glyph)

\* The place of a category in the order of the checks.
Rank(cat) ==
  CASE cat = "small" -> 1 [] cat = "length" -> 2 [] cat = "close" -> 3
    [] cat = "collinear" -> 4 [] cat = "open" -> 5 [] cat = "isolated" -> 6
    [] cat = "anchor" -> 7 [] OTHER -> 0

\* No check has anything to report on the layer.
Clean(layer) ==
  /\ \A k \in 1..Len(AllSegments(layer)) :
       LET sg == AllSegments(layer)[k]
       IN  /\ ~(InSmallRange(sg.w) \/ InSmallRange(sg.h))
           /\ ~(sg.hasLen /\ TargetsNear(sg.len, 1) # {})
  /\ ClosePairs(layer, FALSE) = {}
  /\ \A p \in 1..Len(layer.paths) :
       /\ \A i \in TripleStarts(layer.paths[p]) : ~ZeroCross(layer.paths[p], i)
       /\ layer.paths[p].closed \/ Len(layer.paths[p].nodes) = 0
       /\ Len(layer.paths[p].nodes) # 1
  /\ layer.anchors = <<>>

\* C9: between glyphs, when the names of the glyphs processed so far are
\* distinct, every counter equals the number of stored issues of its category
\* (isolated nodes and anchors share one), the counters add up to the number
\* of stored entries other than "OK", and every processed glyph has one map
\* entry, which is the single "OK" iff the glyph had nothing to report and
\* otherwise its issues in the order of the checks.
C9_Aggregator ==
  (BetweenGlyphs /\ DistinctNames(Processed)) =>
    /\ count_small_segments = Stored({"small"})
    /\ count_suspicious_lengths = Stored({"length"})
    /\ count_close_nodes = Stored({"close"})
    /\ count_collinear = Stored({"collinear"})
    /\ count_open_paths = Stored({"open"})
    /\ count_isolated = Stored({"isolated", "anchor"})
    /\ count_small_segments + count_suspicious_lengths + count_close_nodes
         + count_collinear + count_open_paths + count_isolated
       = Stored({"small", "length", "close", "collinear", "open", "isolated", "anchor"})
    /\ DOMAIN issues_by_glyph = {font[i].name : i \in Processed}
    /\ \A i \in Processed :
         LET entry == issues_by_glyph[font[i].name]
         IN  /\ Len(entry) >= 1
             /\ (entry = <<OK>>) <=> Clean(font[i].layer)
             /\ entry # <<OK>> =>
                  \A a, b \in 1..Len(entry) :
                    /\ Rank(entry[a].cat) >= 1
                    /\ a < b => Rank(entry[a].cat) <= Rank(entry[b].cat)

\* All glyphs are processed, their names are distinct, one is OK and the
\* other has issues of four kinds, the anchor last.
C9_Witness ==
  /\ pc = "summary"
  /\ DistinctNames(1..Len(font))
  /\ \E n \in DOMAIN issues_by_glyph : issues_by_glyph[n] = <<OK>>
  /\ \E n \in DOMAIN issues_by_glyph :
       /\ {issues_by_glyph[n][k].cat : k \in 1..Len(issues_by_glyph[n])}
            = {"length", "collinear", "open", "anchor"}
       /\ issues_by_glyph[n][Len(issues_by_glyph[n])].cat = "anchor"
  /\ count_suspicious_lengths = 2 /\ count_isolated = 1

\* The size of a layer's box along a dimension.
BoxSize(layer, dim) == IF dim = "width" THEN layer.bounds.w ELSE layer.bounds.h

\* k is the size rounded to an integer: 0 without an outline, else an integer
\* within 1/2 of the size.
RoundedSize(layer, dim, k) ==
  IF ~layer.bounds.defined THEN k = 0
  ELSE Abs(H(k) - BoxSize(layer, dim)) <= 1

\* The report has a section of the given title that puts every glyph in a
\* bucket keyed by its rounded size (in exactly one bucket when the names are
\* distinct), with every bucket's names sorted and no other names.
GroupingPrinted(title, dim) ==
  \E s \in 1..Len(out) :
    /\ out[s].sec = title
    /\ LET lines == out[s].body
       IN  /\ \A i \in 1..Len(font) :
                \E l \in 1..Len(lines) :
                  /\ RoundedSize(font[i].layer, dim, lines[l].width)
                  /\ \E n \in 1..Len(lines[l].names) : lines[l].names[n] = font[i].name
           /\ DistinctNames(1..Len(font)) =>
                \A i \in 1..Len(font) :
                  Cardinality({l \in 1..Len(lines) :
                                 \E n \in 1..Len(lines[l].names) :
                                   lines[l].names[n] = font[i].name}) = 1
           /\ SumOver([l \in 1..Len(lines) |-> Len(lines[l].names)], 1..Len(lines))
                = Len(font)
           /\ \A l \in 1..Len(lines) :
                \A a, b \in 1..Len(lines[l].names) :
                  a < b => lines[l].names[a] <= lines[l].names[b]
           /\ \A l, k \in 1..Len(lines) : l < k => lines[l].width < lines[k].width

\* C10 as stated: at the end there is a width grouping and a separate height
\* grouping.
C10_AsStated ==
  pc = "done" =>
    /\ GroupingPrinted("Outline Width Groups", "width")
    /\ GroupingPrinted("Outline Height Groups", "height")

\* C10, amended: at the end every glyph is in exactly one bucket of the width
\* grouping, keyed by the integer-rounded width of its layer's box (0 when
\* the layer has no outline), the names of each bucket sorted; the width
\* grouping is the only grouping of the report, there is none by height.
C10_WidthGroups ==
  pc = "done" =>
    /\ GroupingPrinted("Outline Width Groups", "width")
    /\ {out[s].sec : s \in 1..Len(out)}
         = {"Summary of Issues", "Glyphs", "Outline Width Groups"}
    /\ Len(out) = 3

\* Glyph 2, 2.5 wide, comes before glyph 1, 2 wide, in the font: both are in
\* the bucket of width 2, glyph 1 first.
C10_Witness ==
  /\ pc = "done"
  /\ font[1].name = 2 /\ font[1].layer.bounds.w = H(2) + 1
  /\ font[Len(font)].name = 1 /\ font[Len(font)].layer.bounds.w = H(2)
  /\ \E s \in 1..Len(out) :
       /\ out[s].sec = "Outline Width Groups"
       /\ \E l \in 1..Len(out[s].body) :
            /\ out[s].body[l].width = 2
            /\ out[s].body[l].names[1] = 1
            /\ out[s].body[l].names[Len(out[s].body[l].names)] = 2

====
